---- MODULE Spec2Model ----
(***************************************************************************)
(* Session store (useAuthStore), auth facade (useAuth) and route guard     *)
(* (ProtectedRoute) of the helpdesk front end.                             *)
(*                                                                         *)
(* The repository carries two builds of the store and of the facade: one   *)
(* backed by the Supabase client (unnamed/part_006, unnamed/part_003) and  *)
(* one backed by the REST API of lib/api.ts (store/authStore.ts,           *)
(* unnamed/part_000).  The variable `variant` fixes the build at start.    *)
(***************************************************************************)
EXTENDS Bags, FiniteSets, Integers, Sequences, TLC

\* ---------------------------------------------------------------- bounds
MaxCalls == 2      \* store operations that may be in flight together
MaxViews == 1      \* views using the facade that may be mounted together
MaxNotices == 2    \* SIGNED_OUT notifications that may wait for their callback
MaxFacades == 2    \* facades subscribed while the user logs out (page and layout)
MaxRedirects == 12 \* automatic redirects followed in one chain
MaxRequests == 2   \* ticket store operations that may be in flight together
MaxMessages == 6   \* messages of one conversation
MaxAsking == 2     \* ai-chat invocations that may be in flight together

\* ------------------------------------------------------- absent JS values
NullUser  == [null |-> TRUE]          \* user: null
NullToken == "null"                   \* token: null / getItem() === null
Undef     == "undefined"              \* an optional string that is absent
Undefined == [undefined |-> TRUE]     \* the JS value undefined
Bool(b)   == [bool |-> b]             \* a JS boolean

\* JS truthiness of an optional string (a || b picks b for undefined and "")
TruthyStr(s) == s \notin {Undef, NullToken, ""}
OrElse(a, b) == IF TruthyStr(a) THEN a ELSE b

\* JS truthiness of a boolean-or-undefined value
Truthy(v) == v # Undefined /\ v.bool

\* ------------------------------------------------------------ input sets
Variants == {"supabase", "rest"}
Tokens   == {"T1", "T2"}
Names    == {"Ann"}
Departments == {"HR"}
ErrorMessages == {"Invalid credentials", Undef}

\* Supabase User payloads (user_metadata flattened)
SupabaseUsers ==
  { [id |-> "1", email |-> "a@x.com", metaName |-> Undef, metaRole |-> Undef,
     metaDepartment |-> Undef, created_at |-> "c1", updated_at |-> "u1"],
    [id |-> "2", email |-> "b@x.com", metaName |-> "Bob", metaRole |-> "admin",
     metaDepartment |-> "IT", created_at |-> "c2", updated_at |-> "u2"] }

\* a payload whose display name is the empty string
AgentPayload ==
  [id |-> "3", email |-> "c@x.com", metaName |-> "", metaRole |-> "agent",
   metaDepartment |-> Undef, created_at |-> "c3", updated_at |-> "u3"]

\* IUser payloads of the REST API
RestUsers ==
  { [id |-> "1", email |-> "a@x.com", name |-> "Alice", role |-> "user",
     department |-> Undef, createdAt |-> "c1", updatedAt |-> "u1"],
    [id |-> "2", email |-> "b@x.com", name |-> "Bob", role |-> "admin",
     department |-> "IT", createdAt |-> "c2", updatedAt |-> "u2"] }

\* --------------------------------------------------------------- session
NullSession == [user |-> NullUser, token |-> NullToken, isAuthenticated |-> FALSE]
AuthSession(u, t) == [user |-> u, token |-> t, isAuthenticated |-> TRUE]

\* variant of ToIUser that copies the metadata without the defaults
ToIUser_NoDefaults(u) ==
  [id |-> u.id, email |-> u.email,
   name |-> u.metaName,
   role |-> u.metaRole,
   department |-> u.metaDepartment,
   createdAt |-> u.created_at, updatedAt |-> u.updated_at]

\* variant of ToIUser that gives every user the role and name of a new
\* account, as register does
ToIUser_AccountDefaults(u) ==
  [id |-> u.id, email |-> u.email,
   name |-> u.email,
   role |-> "user",
   department |-> u.metaDepartment,
   createdAt |-> u.created_at, updatedAt |-> u.updated_at]

\* login / checkAuth: "Transform Supabase user to IUser format"
ToIUser(u) ==
  [id |-> u.id, email |-> u.email,
   name |-> OrElse(u.metaName, u.email),
   role |-> OrElse(u.metaRole, "user"),
   department |-> u.metaDepartment,
   createdAt |-> u.created_at, updatedAt |-> u.updated_at]

\* register: name, role and department come from the submitted form
ToRegisteredIUser(u, name, department) ==
  [id |-> u.id, email |-> u.email, name |-> name, role |-> "user",
   department |-> department,
   createdAt |-> u.created_at, updatedAt |-> u.updated_at]

\* ------------------------------------------------------ persisted record
NoItem == [absent |-> TRUE]           \* getItem() finds nothing under a key

\* variant of Partialize that leaves the token out of the stored record
Partialize_WithoutToken(s) ==
  [user |-> s.user, token |-> NullToken, isAuthenticated |-> s.isAuthenticated]

\* persist.partialize: the record written under 'powersupport-auth'
Partialize(s) == [user |-> s.user, token |-> s.token, isAuthenticated |-> s.isAuthenticated]

\* persist: merge of the stored record into the initial state at creation
Rehydrate(item) == IF item = NoItem THEN NullSession ELSE Partialize(item)

VARIABLES
  variant,        \* which build of store and facade runs
  session,        \* useAuthStore state: user, token, isAuthenticated
  localStorage,   \* persist: record under 'powersupport-auth'; authToken: LOCAL_STORAGE_KEYS.AUTH_TOKEN
  calls,          \* bag of store operations awaiting the provider
  ret,            \* how the last store operation returned to its caller
  mounted,        \* number of mounted views using useAuth
  props,          \* inputs of one ProtectedRoute render
  outcome,        \* what that render returned
  subscribed,     \* number of live onAuthStateChange subscriptions
  provider,       \* the provider's answer to a session check while its state is held fixed
  facadeLog,      \* the last event at the facade (observation only)
  notices,        \* SIGNED_OUT notifications emitted and not yet handled by a callback
  route,          \* the location the router shows
  hops,           \* automatic redirects since that location was opened
  tickets,        \* useTicketStore state: the list
  loading,        \* useTicketStore state: a fetch is running
  error,          \* useTicketStore state: the last failure message or null
  requests,       \* bag of ticket store operations awaiting the API
  tret,           \* how the last ticket store operation returned to its caller
  messages,       \* ChatInterface state: the conversation
  isLoading,      \* ChatInterface state: a reply is awaited
  asking,         \* ai-chat invocations awaiting their answer
  answer          \* the last answer of the ai-chat function

\* the auth store, its facade and one render of the guard
authVars == <<variant, session, localStorage, calls, ret, mounted, props, outcome,
              subscribed, provider, facadeLog>>
\* the router
navVars == <<route, hops>>
\* the ticket store
ticketVars == <<tickets, loading, error, requests, tret>>
\* the chat page
chatVars == <<messages, isLoading, asking, answer>>
\* everything outside the auth store and its facade
pages == <<notices, navVars, ticketVars, chatVars>>

vars == <<authVars, pages>>

NullError == "null"                   \* error: null

\* no ticket store operation has returned yet
NoTicketReturn ==
  [op |-> "none", outcome |-> "none", message |-> Undef, id |-> Undef,
   reply |-> [none |-> TRUE], overlapped |-> FALSE]

\* useTicketStore as created
TicketsIdle ==
  /\ tickets = << >>
  /\ loading = FALSE
  /\ error = NullError
  /\ requests = EmptyBag
  /\ tret = NoTicketReturn

\* the ai-chat function has not been asked
NoAnswer == [kind |-> "none", response |-> Undef]

\* ChatInterface as mounted
ChatIdle ==
  /\ messages = << >>
  /\ isLoading = FALSE
  /\ asking = 0
  /\ answer = NoAnswer

\* no page is involved: nothing is pending outside the auth store
PagesIdle ==
  /\ notices = 0
  /\ route = "/"
  /\ hops = 0
  /\ TicketsIdle
  /\ ChatIdle


\* ----------------------------------------------------- calls in flight
\* op: the store operation; name, department: register's form data;
\* token: the credential read from localStorage before the await (REST);
\* mount: started by useAuth's mount effect; logoutSince: a logout() has
\* completed since this call was started (observation only).
Call(op, name, department, token, mount) ==
  [op |-> op, name |-> name, department |-> department, token |-> token,
   mount |-> mount, logoutSince |-> FALSE]

InFlight == BagToSet(calls)
CanStart == BagCardinality(calls) < MaxCalls
Started(c) == calls (+) SetToBag({c})
Finished(c) == calls (-) SetToBag({c})

\* c, having seen a logout complete
Overtaken(c) ==
  [op |-> c.op, name |-> c.name, department |-> c.department, token |-> c.token,
   mount |-> c.mount, logoutSince |-> TRUE]

\* n copies of c
RECURSIVE Copies(_, _)
Copies(c, n) == IF n = 0 THEN EmptyBag ELSE SetToBag({c}) (+) Copies(c, n - 1)

\* every call still in flight has now seen a logout complete
RECURSIVE SeenLogout(_)
SeenLogout(B) ==
  IF B = EmptyBag THEN EmptyBag
  ELSE LET c == CHOOSE x \in BagToSet(B) : TRUE
       IN Copies(Overtaken(c), B[c]) (+) SeenLogout(B (-) Copies(c, B[c]))

\* the caller's view of a finished operation
\* (n alternates so that two equal returns in a row remain two events;
\* reply is what the provider had answered; afterLogout tells that a logout()
\* had completed while the operation was awaiting that answer)
Return(op, result, message, reply, afterLogout) ==
  [n |-> 1 - ret.n, op |-> op, outcome |-> result, message |-> message,
   reply |-> reply, afterLogout |-> afterLogout]

\* ---------------------------------------------------- provider replies
\* supabase.auth.signInWithPassword / signUp: { data: {user, session}, error }
SupabaseAuthReplies ==
  {[hasError |-> TRUE, message |-> m, user |-> NullUser, token |-> NullToken] :
      m \in ErrorMessages}
  \cup {[hasError |-> FALSE, message |-> Undef, user |-> u, token |-> t] :
      u \in SupabaseUsers, t \in Tokens}
  \cup {[hasError |-> FALSE, message |-> Undef, user |-> u, token |-> NullToken] :
      u \in SupabaseUsers \cup {NullUser}}

\* supabase.auth.signOut: resolves, resolves with { error }, or throws
SignOutReplies == {[kind |-> "ok"], [kind |-> "error"], [kind |-> "throw"]}

\* supabase.auth.getSession: { data: { session } } or a throw
GetSessionReplies ==
  {[thrown |-> FALSE, user |-> u, token |-> t] : u \in SupabaseUsers, t \in Tokens}
  \cup {[thrown |-> FALSE, user |-> NullUser, token |-> NullToken],
        [thrown |-> TRUE, user |-> NullUser, token |-> NullToken]}

\* authAPI.*: an IApiResponse body, or an AxiosError (status 0: no response)
RestOk(u, t) ==
  [thrown |-> FALSE, status |-> 200, success |-> TRUE, user |-> u, token |-> t,
   message |-> Undef, errMessage |-> Undef]
RestRefused(m) ==
  [thrown |-> FALSE, status |-> 200, success |-> FALSE, user |-> NullUser,
   token |-> NullToken, message |-> m, errMessage |-> Undef]
RestThrown(st, m, em) ==
  [thrown |-> TRUE, status |-> st, success |-> FALSE, user |-> NullUser,
   token |-> NullToken, message |-> m, errMessage |-> em]
RestFailures ==
  {RestRefused(m) : m \in ErrorMessages}
  \cup {RestThrown(401, "Invalid credentials", "Request failed with status code 401"),
        RestThrown(500, Undef, "Request failed with status code 500"),
        RestThrown(0, Undef, "Network Error")}
RestAuthReplies ==
  {RestOk(u, t) : u \in RestUsers, t \in Tokens}
  \cup {RestOk(NullUser, NullToken)} \cup RestFailures
RestVerifyReplies ==
  {RestOk(u, NullToken) : u \in RestUsers}
  \cup {RestOk(NullUser, NullToken)} \cup RestFailures
RestLogoutReplies == {RestOk(NullUser, NullToken)} \cup RestFailures


NoReply == [none |-> TRUE]            \* the provider was not asked

\* ------------------------------------------- what a handler does, as data
\* set / state: the argument of zustand's set(), when it is called;
\* rejected / message: the Error thrown to the caller;
\* tokenWrite / tokenValue: setItem / removeItem on AUTH_TOKEN;
\* reload: the response interceptor assigned window.location.href.
Effect(set, state, rejected, message, tokenWrite, tokenValue, reload) ==
  [set |-> set, state |-> state, rejected |-> rejected, message |-> message,
   tokenWrite |-> tokenWrite, tokenValue |-> tokenValue, reload |-> reload]

SetTo(state)    == Effect(TRUE, state, FALSE, Undef, "none", NullToken, FALSE)
Nothing         == Effect(FALSE, NullSession, FALSE, Undef, "none", NullToken, FALSE)
Throw(message)  == Effect(FALSE, NullSession, TRUE, message, "none", NullToken, FALSE)

\* api.interceptors.response: on 401 remove the token and load the login page
Intercepted(r, e) ==
  IF r.thrown /\ r.status = 401
  THEN [e EXCEPT !.reload = TRUE,
                 !.tokenWrite = IF e.tokenWrite = "set" THEN "set" ELSE "remove"]
  ELSE e

\* localStorage after the handler's setItem / removeItem and persist's write
StorageAfter(e) ==
  LET ls == CASE e.tokenWrite = "set"    -> [localStorage EXCEPT !.authToken = e.tokenValue]
              [] e.tokenWrite = "remove" -> [localStorage EXCEPT !.authToken = NullToken]
              [] OTHER                   -> localStorage
  IN IF e.set THEN [ls EXCEPT !.persist = Partialize(e.state)] ELSE ls

\* the handler's writes, its return to the caller, and (after a 401) the new
\* page: nothing of the old page is left and the store is created again
Apply(e, op, reply, afterLogout, newCalls, newMounted, newSubscribed) ==
  /\ localStorage' = StorageAfter(e)
  /\ session' = IF e.reload THEN Rehydrate(StorageAfter(e).persist)
                ELSE IF e.set THEN e.state ELSE session
  /\ calls' = IF e.reload THEN EmptyBag ELSE newCalls
  /\ mounted' = IF e.reload THEN 0 ELSE newMounted
  /\ subscribed' = IF e.reload THEN 0 ELSE newSubscribed
  /\ ret' = IF op = "none" THEN ret
            ELSE Return(op, IF e.rejected THEN "rejected" ELSE "resolved",
                        e.message, reply, afterLogout)
  /\ UNCHANGED <<variant, props, outcome, provider>>


\* ------------------------------------- Supabase store (unnamed/part_006)
\* variant of LoginEffect that signs the user out when the provider refuses
LoginEffect_ClearsOnError(r) ==
  IF r.hasError
  THEN Effect(TRUE, NullSession, TRUE, OrElse(r.message, "Login failed"),
              "none", NullToken, FALSE)
  ELSE IF r.user # NullUser /\ r.token # NullToken
       THEN SetTo(AuthSession(ToIUser(r.user), r.token))
       ELSE Nothing

\* variant of LoginEffect that throws its own text whatever the provider said
LoginEffect_GenericMessage(r) ==
  IF r.hasError THEN Throw("Login failed")
  ELSE IF r.user # NullUser /\ r.token # NullToken
       THEN SetTo(AuthSession(ToIUser(r.user), r.token))
       ELSE Nothing

\* login, from the end of the await
LoginEffect(r) ==
  IF r.hasError THEN Throw(OrElse(r.message, "Login failed"))
  ELSE IF r.user # NullUser /\ r.token # NullToken
       THEN SetTo(AuthSession(ToIUser(r.user), r.token))
       ELSE Nothing

\* register, from the end of the await
RegisterEffect(c, r) ==
  IF r.hasError THEN Throw(OrElse(r.message, "Registration failed"))
  ELSE IF r.user # NullUser /\ r.token # NullToken
       THEN SetTo(AuthSession(ToRegisteredIUser(r.user, c.name, c.department), r.token))
       ELSE Nothing

\* variant of LogoutEffect without the try/catch around signOut()
LogoutEffect_ThrowBlocks(r) ==
  IF r.kind = "throw" THEN Throw("Logout error") ELSE SetTo(NullSession)

\* logout, from the end of the await: a throw is caught, an error ignored
LogoutEffect(r) == SetTo(NullSession)

\* variant of CheckAuthEffect that only lowers the flag when no session is found
CheckAuthEffect_FlagOnly(c, r) ==
  IF ~r.thrown /\ r.user # NullUser
  THEN SetTo(AuthSession(ToIUser(r.user), r.token))
  ELSE SetTo([session EXCEPT !.isAuthenticated = FALSE])

\* variant of CheckAuthEffect that leaves the store alone when getSession throws
CheckAuthEffect_ThrowIgnored(c, r) ==
  IF r.thrown THEN Nothing
  ELSE IF r.user # NullUser
       THEN SetTo(AuthSession(ToIUser(r.user), r.token))
       ELSE SetTo(NullSession)

\* variant of CheckAuthEffect that drops an answer overtaken by a logout
CheckAuthEffect_DropsAfterLogout(c, r) ==
  IF c.logoutSince THEN Nothing
  ELSE IF ~r.thrown /\ r.user # NullUser
       THEN SetTo(AuthSession(ToIUser(r.user), r.token))
       ELSE SetTo(NullSession)

\* checkAuth, from the end of the await
CheckAuthEffect(c, r) ==
  IF ~r.thrown /\ r.user # NullUser
  THEN SetTo(AuthSession(ToIUser(r.user), r.token))
  ELSE SetTo(NullSession)

\* ------------------------------------ REST store (src/store/authStore.ts)
RestLoginEffect(r) ==
  Intercepted(r,
    IF ~r.thrown /\ r.success /\ r.user # NullUser
    THEN [SetTo(AuthSession(r.user, r.token)) EXCEPT
            !.tokenWrite = "set", !.tokenValue = r.token]
    ELSE Throw(OrElse(r.message, OrElse(r.errMessage, "Login failed"))))

RestRegisterEffect(r) ==
  Intercepted(r,
    IF ~r.thrown /\ r.success /\ r.user # NullUser
    THEN [SetTo(AuthSession(r.user, r.token)) EXCEPT
            !.tokenWrite = "set", !.tokenValue = r.token]
    ELSE Throw(OrElse(r.message, OrElse(r.errMessage, "Registration failed"))))

\* logout is synchronous; the request to /auth/logout is sent afterwards
RestLogoutEffect == [SetTo(NullSession) EXCEPT !.tokenWrite = "remove"]

\* authAPI.logout().catch(console.error)
RestLogoutApiEffect(r) == Intercepted(r, Nothing)

\* checkAuth without a stored token returns before any request
RestCheckAuthNoTokenEffect == SetTo(NullSession)

\* variant of RestCheckAuthEffect whose removeItem is not confined to the catch
RestCheckAuthEffect_AlwaysRemovesToken(c, r) ==
  Intercepted(r,
    IF ~r.thrown /\ r.success /\ r.user # NullUser
    THEN [SetTo(AuthSession(r.user, c.token)) EXCEPT !.tokenWrite = "remove"]
    ELSE [SetTo(NullSession) EXCEPT !.tokenWrite = "remove"])

\* checkAuth, from the end of the await; c.token is the token read before it
RestCheckAuthEffect(c, r) ==
  Intercepted(r,
    IF ~r.thrown /\ r.success /\ r.user # NullUser
    THEN SetTo(AuthSession(r.user, c.token))
    ELSE [SetTo(NullSession) EXCEPT !.tokenWrite = "remove"])

\* ----------------------------------------------------------------- Init
\* The store is created with the null triple and persist merges what an
\* earlier page left under 'powersupport-auth'.
StorageAtStart ==
  {[persist |-> NoItem, authToken |-> NullToken],
   [persist |-> NullSession, authToken |-> NullToken]}
  \cup (IF variant = "supabase"
        THEN {[persist |-> AuthSession(ToIUser(u), "T1"), authToken |-> NullToken] :
                u \in SupabaseUsers}
        ELSE {[persist |-> AuthSession(u, "T1"), authToken |-> t] :
                u \in RestUsers, t \in {"T1", NullToken}})

NoReturn ==
  [n |-> 0, op |-> "none", outcome |-> "none", message |-> Undef,
   reply |-> NoReply, afterLogout |-> FALSE]

DefaultProps ==
  [user |-> NullUser, isAuthenticated |-> Bool(FALSE), requireRole |-> Undef,
   location |-> "/chat"]
NotRendered == [kind |-> "none", to |-> Undef, from |-> Undef]

\* the provider answers each session check on its own
Unsettled == [unsettled |-> TRUE]

\* ------------------------------------------- record of the last facade event
\* by: "mount" (the mount effect ran) or "notify" (the provider emitted an
\* auth event); views: the views mounted when it happened; n alternates so
\* that two equal events in a row remain two events.
NotObserved ==
  [by |-> "off", event |-> Undef, hasSession |-> FALSE, views |-> 0, n |-> 0]
NothingObserved ==
  [by |-> "none", event |-> Undef, hasSession |-> FALSE, views |-> 0, n |-> 0]
Observed(by, event, hasSession) ==
  IF facadeLog = NotObserved THEN facadeLog
  ELSE [by |-> by, event |-> event, hasSession |-> hasSession, views |-> mounted,
        n |-> 1 - facadeLog.n]

Init ==
  /\ variant \in Variants
  /\ localStorage \in StorageAtStart
  /\ session = Rehydrate(localStorage.persist)
  /\ calls = EmptyBag
  /\ ret = NoReturn
  /\ mounted = 0
  /\ props = DefaultProps
  /\ outcome = NotRendered
  /\ subscribed = 0
  /\ provider = Unsettled
  /\ facadeLog = NotObserved
  /\ PagesIdle


\* what the provider of the running build may answer
AuthReplies == IF variant = "supabase" THEN SupabaseAuthReplies ELSE RestAuthReplies
SessionReplies == IF variant = "supabase" THEN GetSessionReplies ELSE RestVerifyReplies

\* api.interceptors.request: the bearer token a request carries
Bearer(ls) == IF TruthyStr(ls.authToken) THEN ls.authToken ELSE NullToken

\* ------------------------------------------------ starting an operation
Begin(op, name, department) ==
  /\ CanStart
  /\ calls' = Started(Call(op, name, department, NullToken, FALSE))
  /\ UNCHANGED <<variant, session, localStorage, ret, mounted, props, outcome,
                 subscribed, provider>>

\* login(credentials) up to its await
Login ==
  /\ Begin("login", Undef, Undef)
  /\ UNCHANGED <<facadeLog, pages>>

\* register(userData) up to its await
Register(name, department) ==
  /\ Begin("register", name, department)
  /\ UNCHANGED <<facadeLog, pages>>

\* logout(): the Supabase build awaits signOut() first; the REST build clears
\* the token and the store at once and then posts to /auth/logout
LogoutStart ==
  IF variant = "supabase"
  THEN Begin("logout", Undef, Undef)
  ELSE /\ CanStart
       /\ Apply(RestLogoutEffect, "logout", NoReply, FALSE,
                SeenLogout(calls)
                  (+) SetToBag({Call("logoutApi", Undef, Undef,
                                     Bearer(StorageAfter(RestLogoutEffect)), FALSE)}),
                mounted, subscribed)

\* logout() called by a view
Logout ==
  /\ LogoutStart
  /\ UNCHANGED <<facadeLog, pages>>

\* checkAuth() up to its await (the REST build returns early without a token)
CheckAuthBegin(mount, newMounted, newSubscribed) ==
  IF variant = "rest" /\ ~TruthyStr(localStorage.authToken)
  THEN Apply(RestCheckAuthNoTokenEffect, "checkAuth", NoReply, FALSE, calls,
             newMounted, newSubscribed)
  ELSE /\ CanStart
       /\ calls' = Started(Call("checkAuth", Undef, Undef,
                                IF variant = "rest" THEN localStorage.authToken
                                ELSE NullToken, mount))
       /\ mounted' = newMounted
       /\ subscribed' = newSubscribed
       /\ UNCHANGED <<variant, session, localStorage, ret, props, outcome, provider>>

\* checkAuth() called by a view
CheckAuth ==
  /\ CheckAuthBegin(FALSE, mounted, subscribed)
  /\ UNCHANGED <<facadeLog, pages>>

\* ------------------------------------------------- the provider answers
LoginComplete(c, r) ==
  /\ c \in InFlight /\ c.op = "login"
  /\ r \in AuthReplies
  /\ IF variant = "supabase"
     THEN Apply(LoginEffect(r), "login", r, c.logoutSince, Finished(c),
                mounted, subscribed)
     ELSE Apply(RestLoginEffect(r), "login", r, c.logoutSince, Finished(c),
                mounted, subscribed)
  /\ UNCHANGED <<facadeLog, pages>>

RegisterComplete(c, r) ==
  /\ c \in InFlight /\ c.op = "register"
  /\ r \in AuthReplies
  /\ IF variant = "supabase"
     THEN Apply(RegisterEffect(c, r), "register", r, c.logoutSince, Finished(c),
                mounted, subscribed)
     ELSE Apply(RestRegisterEffect(r), "register", r, c.logoutSince, Finished(c),
                mounted, subscribed)
  /\ UNCHANGED <<facadeLog, pages>>

LogoutComplete(c, r) ==
  /\ variant = "supabase"
  /\ c \in InFlight /\ c.op = "logout"
  /\ r \in SignOutReplies
  /\ Apply(LogoutEffect(r), "logout", r, c.logoutSince, SeenLogout(Finished(c)),
           mounted, subscribed)
  /\ UNCHANGED <<facadeLog, pages>>

LogoutApiComplete(c, r) ==
  /\ variant = "rest"
  /\ c \in InFlight /\ c.op = "logoutApi"
  /\ r \in RestLogoutReplies
  /\ Apply(RestLogoutApiEffect(r), "none", r, c.logoutSince, Finished(c),
           mounted, subscribed)
  /\ UNCHANGED <<facadeLog, pages>>

CheckAuthComplete(c, r) ==
  /\ c \in InFlight /\ c.op = "checkAuth"
  /\ r \in SessionReplies
  /\ IF variant = "supabase"
     THEN Apply(CheckAuthEffect(c, r), "checkAuth", r, c.logoutSince, Finished(c),
                mounted, subscribed)
     ELSE Apply(RestCheckAuthEffect(c, r), "checkAuth", r, c.logoutSince, Finished(c),
                mounted, subscribed)
  /\ UNCHANGED <<facadeLog, pages>>

\* ------------------------------------------------ auth facade (useAuth)
AuthEvents == {"SIGNED_OUT", "SIGNED_IN", "TOKEN_REFRESHED", "INITIAL_SESSION"}

\* the mount effect: subscribe (Supabase build) and call checkAuth()
Mount ==
  /\ mounted < MaxViews
  /\ CheckAuthBegin(TRUE, mounted + 1,
                    IF variant = "supabase" THEN subscribed + 1 ELSE subscribed)
  /\ facadeLog' = Observed("mount", Undef, FALSE)
  /\ UNCHANGED pages

\* variant of Unmount whose cleanup leaves the subscription in place
Unmount_KeepsSubscription ==
  /\ mounted > 0
  /\ mounted' = mounted - 1
  /\ UNCHANGED <<variant, session, localStorage, calls, ret, props, outcome,
                 subscribed, provider, facadeLog, pages>>

\* the effect's cleanup: subscription.unsubscribe(); calls stay in flight
Unmount ==
  /\ mounted > 0
  /\ mounted' = mounted - 1
  /\ subscribed' = IF variant = "supabase" THEN subscribed - 1 ELSE subscribed
  /\ UNCHANGED <<variant, session, localStorage, calls, ret, props, outcome,
                 provider, facadeLog, pages>>

\* variant of Notify that tests the session before the event
Notify_SessionFirst(event, hasSession) ==
  /\ variant = "supabase"
  /\ facadeLog' = Observed("notify", event, hasSession)
  /\ UNCHANGED pages
  /\ IF subscribed = 0
     THEN UNCHANGED <<variant, session, localStorage, calls, ret, mounted, props,
                      outcome, subscribed, provider>>
     ELSE IF hasSession THEN CheckAuthBegin(FALSE, mounted, subscribed)
     ELSE IF event = "SIGNED_OUT" THEN LogoutStart
     ELSE UNCHANGED <<variant, session, localStorage, calls, ret, mounted, props,
                      outcome, subscribed, provider>>

\* the provider emits an auth event: the onAuthStateChange callback of a live
\* subscription runs; without a subscription nobody is called
Notify(event, hasSession) ==
  /\ variant = "supabase"
  /\ facadeLog' = Observed("notify", event, hasSession)
  /\ UNCHANGED pages
  /\ IF subscribed = 0
     THEN UNCHANGED <<variant, session, localStorage, calls, ret, mounted, props,
                      outcome, subscribed, provider>>
     ELSE IF event = "SIGNED_OUT" THEN LogoutStart
     ELSE IF hasSession THEN CheckAuthBegin(FALSE, mounted, subscribed)
     ELSE UNCHANGED <<variant, session, localStorage, calls, ret, mounted, props,
                      outcome, subscribed, provider>>

\* what useAuth hands to the component
UseAuth == [user |-> session.user, isAuthenticated |-> Bool(session.isAuthenticated)]

\* ----------------------------------------- route guard (ProtectedRoute)
ROUTES_HOME  == "/"
ROUTES_LOGIN == "/auth/login"
ROUTES_CHAT  == "/chat"
ROUTES_TICKET_HISTORY  == "/tickets"
ROUTES_ADMIN_DASHBOARD == "/admin/dashboard"
ROUTES_REGISTER == "/auth/register"
ROUTES_ADMIN_TICKETS == "/admin/tickets"
ROUTES_ADMIN_KB == "/admin/knowledge-base"
ROUTES_ADMIN_TEAMS == "/admin/teams"
ROUTES_ADMIN_ALERTS == "/admin/alerts"
Elsewhere == "/elsewhere"             \* any path App has no route for

Loading == [kind |-> "loading", to |-> Undef, from |-> Undef]
Content == [kind |-> "content", to |-> Undef, from |-> Undef]
Navigate(to, from) == [kind |-> "redirect", to |-> to, from |-> from]

\* variant of ProtectedRoute whose login redirect forgets the location
ProtectedRoute_NoFrom(user, isAuthenticated, requireRole, location) ==
  IF isAuthenticated = Undefined \/ (Truthy(isAuthenticated) /\ user = NullUser)
  THEN Loading
  ELSE IF ~Truthy(isAuthenticated)
  THEN Navigate(ROUTES_LOGIN, Undef)
  ELSE IF TruthyStr(requireRole) /\ user.role # requireRole
  THEN Navigate(IF requireRole = "admin" THEN ROUTES_LOGIN ELSE ROUTES_HOME, Undef)
  ELSE Content

\* variant of ProtectedRoute that checks the role of admin routes only
ProtectedRoute_AdminOnly(user, isAuthenticated, requireRole, location) ==
  IF isAuthenticated = Undefined \/ (Truthy(isAuthenticated) /\ user = NullUser)
  THEN Loading
  ELSE IF ~Truthy(isAuthenticated)
  THEN Navigate(ROUTES_LOGIN, location)
  ELSE IF requireRole = "admin" /\ user.role # requireRole
  THEN Navigate(ROUTES_LOGIN, Undef)
  ELSE Content

\* variant of ProtectedRoute that sends every failed role check home
ProtectedRoute_AlwaysHome(user, isAuthenticated, requireRole, location) ==
  IF isAuthenticated = Undefined \/ (Truthy(isAuthenticated) /\ user = NullUser)
  THEN Loading
  ELSE IF ~Truthy(isAuthenticated)
  THEN Navigate(ROUTES_LOGIN, location)
  ELSE IF TruthyStr(requireRole) /\ user.role # requireRole
  THEN Navigate(ROUTES_HOME, Undef)
  ELSE Content

ProtectedRoute(user, isAuthenticated, requireRole, location) ==
  IF isAuthenticated = Undefined \/ (Truthy(isAuthenticated) /\ user = NullUser)
  THEN Loading
  ELSE IF ~Truthy(isAuthenticated)
  THEN Navigate(ROUTES_LOGIN, location)
  ELSE IF TruthyStr(requireRole) /\ user.role # requireRole
  THEN Navigate(IF requireRole = "admin" THEN ROUTES_LOGIN ELSE ROUTES_HOME, Undef)
  ELSE Content

\* one render of the guard with the props it was given
Render ==
  /\ outcome = NotRendered
  /\ outcome' = ProtectedRoute(props.user, props.isAuthenticated,
                               props.requireRole, props.location)
  /\ UNCHANGED <<variant, session, localStorage, calls, ret, mounted, props,
                 subscribed, provider, facadeLog, pages>>

\* ------------------------------------------------------- specifications
Next ==
  \/ Login
  \/ \E name \in Names, department \in Departments : Register(name, department)
  \/ Logout
  \/ CheckAuth
  \/ \E c \in InFlight, r \in AuthReplies : LoginComplete(c, r)
  \/ \E c \in InFlight, r \in AuthReplies : RegisterComplete(c, r)
  \/ \E c \in InFlight, r \in SignOutReplies : LogoutComplete(c, r)
  \/ \E c \in InFlight, r \in RestLogoutReplies : LogoutApiComplete(c, r)
  \/ \E c \in InFlight, r \in SessionReplies : CheckAuthComplete(c, r)
  \/ Mount
  \/ Unmount
  \/ \E event \in AuthEvents, hasSession \in BOOLEAN : Notify(event, hasSession)

Spec == Init /\ [][Next]_vars

\* The guard as a function of its inputs, whatever the store may hold
Roles == {"user", "agent", "admin"}
GuardUsers == {NullUser} \cup {ToIUser(u) : u \in SupabaseUsers \cup {AgentPayload}}
GuardLocations == {ROUTES_CHAT, ROUTES_TICKET_HISTORY, ROUTES_ADMIN_DASHBOARD}
GuardProps ==
  [user : GuardUsers, isAuthenticated : {Undefined, Bool(TRUE), Bool(FALSE)},
   requireRole : {Undef} \cup Roles, location : GuardLocations]

GuardInit ==
  /\ variant = "supabase"
  /\ localStorage = [persist |-> NoItem, authToken |-> NullToken]
  /\ session = NullSession
  /\ calls = EmptyBag
  /\ ret = NoReturn
  /\ mounted = 0
  /\ props \in GuardProps
  /\ outcome = NotRendered
  /\ subscribed = 0
  /\ provider = Unsettled
  /\ facadeLog = NotObserved
  /\ PagesIdle

GuardNext == Render

GuardSpec == GuardInit /\ [][GuardNext]_vars

\* The facade under observation: views mount and unmount, the provider emits
\* auth events and answers the calls this starts; a view may call logout()
FacadeInit ==
  /\ variant \in Variants
  /\ localStorage \in StorageAtStart
  /\ session = Rehydrate(localStorage.persist)
  /\ calls = EmptyBag
  /\ ret = NoReturn
  /\ mounted = 0
  /\ props = DefaultProps
  /\ outcome = NotRendered
  /\ subscribed = 0
  /\ provider = Unsettled
  /\ facadeLog = NothingObserved
  /\ PagesIdle

FacadeNext ==
  \/ Mount
  \/ Unmount
  \/ \E event \in AuthEvents, hasSession \in BOOLEAN : Notify(event, hasSession)
  \/ Logout
  \/ \E c \in InFlight, r \in SignOutReplies : LogoutComplete(c, r)
  \/ \E c \in InFlight, r \in RestLogoutReplies : LogoutApiComplete(c, r)
  \/ \E c \in InFlight, r \in SessionReplies : CheckAuthComplete(c, r)

FacadeSpec == FacadeInit /\ [][FacadeNext]_vars

\* checkAuth() called time after time, each call after the one before has
\* returned, while the provider's state stays as it is
IdemInit ==
  /\ variant \in Variants
  /\ localStorage \in StorageAtStart
  /\ session = Rehydrate(localStorage.persist)
  /\ calls = EmptyBag
  /\ ret = NoReturn
  /\ mounted = 0
  /\ props = DefaultProps
  /\ outcome = NotRendered
  /\ subscribed = 0
  /\ provider \in SessionReplies
  /\ facadeLog = NotObserved
  /\ PagesIdle

CheckAuthInTurn ==
  /\ calls = EmptyBag
  /\ CheckAuth

ProviderAnswers == \E c \in InFlight : CheckAuthComplete(c, provider)

IdemNext ==
  \/ CheckAuthInTurn
  \/ ProviderAnswers

IdemSpec == IdemInit /\ [][IdemNext]_vars

\* One logout() by the user while the provider emits SIGNED_OUT for every
\* sign-out request it receives (the notification a live subscription's
\* callback turns into another logout())
LoopInit ==
  /\ variant \in Variants
  /\ localStorage \in StorageAtStart
  /\ session = Rehydrate(localStorage.persist)
  /\ calls = EmptyBag
  /\ ret = NoReturn
  /\ mounted \in 1..MaxFacades
  /\ subscribed = (IF variant = "supabase" THEN mounted ELSE 0)
  /\ props = DefaultProps
  /\ outcome = NotRendered
  /\ provider = Unsettled
  /\ facadeLog = NotObserved
  /\ PagesIdle

\* Layout.handleLogout: the one logout() the user asks for
UserLogout ==
  /\ ret = NoReturn /\ calls = EmptyBag /\ notices = 0
  /\ LogoutStart
  /\ UNCHANGED <<facadeLog, pages>>

\* supabase.auth.signOut() is answered; the provider emits SIGNED_OUT to
\* every live subscription (no more than MaxNotices are kept waiting; what
\* exceeds them is dropped)
SignOutAnswered(c, r) ==
  /\ variant = "supabase"
  /\ c \in InFlight /\ c.op = "logout"
  /\ r \in SignOutReplies
  /\ Apply(LogoutEffect(r), "logout", r, c.logoutSince, SeenLogout(Finished(c)),
           mounted, subscribed)
  /\ notices' = IF notices + subscribed <= MaxNotices THEN notices + subscribed
                ELSE MaxNotices
  /\ UNCHANGED <<facadeLog, navVars, ticketVars, chatVars>>

\* the onAuthStateChange callback of one subscription handles SIGNED_OUT:
\* authStore.logout()
SignedOutDelivered ==
  /\ variant = "supabase"
  /\ notices > 0 /\ subscribed > 0
  /\ LogoutStart
  /\ notices' = notices - 1
  /\ UNCHANGED <<facadeLog, navVars, ticketVars, chatVars>>

LoopNext ==
  \/ UserLogout
  \/ \E c \in InFlight, r \in SignOutReplies : SignOutAnswered(c, r)
  \/ SignedOutDelivered
  \/ \E c \in InFlight, r \in RestLogoutReplies : LogoutApiComplete(c, r)

\* the provider answers every request and the event loop runs every callback
LoopSpec ==
  /\ LoopInit /\ [][LoopNext]_vars
  /\ WF_vars(\E c \in InFlight, r \in SignOutReplies : SignOutAnswered(c, r))
  /\ WF_vars(SignedOutDelivered)
  /\ WF_vars(\E c \in InFlight, r \in RestLogoutReplies : LogoutApiComplete(c, r))

\* ------------------------------------------------------- router (App)
\* the paths a browser may open
Locations ==
  {ROUTES_HOME, ROUTES_LOGIN, ROUTES_REGISTER, ROUTES_CHAT, ROUTES_TICKET_HISTORY,
   ROUTES_ADMIN_DASHBOARD, ROUTES_ADMIN_TICKETS, ROUTES_ADMIN_KB, ROUTES_ADMIN_TEAMS,
   ROUTES_ADMIN_ALERTS, Elsewhere}

\* the routes whose element is wrapped in <ProtectedRoute>
Guarded(path) == path \in {ROUTES_CHAT, ROUTES_TICKET_HISTORY, ROUTES_ADMIN_DASHBOARD}

\* variant of RequireRole in which the chat is reserved to agents
RequireRole_ChatForAgents(path) ==
  IF path = ROUTES_ADMIN_DASHBOARD THEN "admin"
  ELSE IF path = ROUTES_CHAT THEN "agent" ELSE Undef

\* the requireRole prop App passes to the guard of a route
RequireRole(path) == IF path = ROUTES_ADMIN_DASHBOARD THEN "admin" ELSE Undef

\* what the guard of the current route returns for the store's state
GuardOutcome ==
  ProtectedRoute(UseAuth.user, UseAuth.isAuthenticated, RequireRole(route), route)

\* the router shows another location: the views of the old page unmount
\* (their subscriptions end, their calls stay in flight)
GoTo(path) ==
  /\ hops < MaxRedirects
  /\ route' = path
  /\ hops' = hops + 1
  /\ mounted' = 0
  /\ subscribed' = 0
  /\ UNCHANGED <<variant, session, localStorage, calls, ret, props, outcome,
                 provider, facadeLog, notices, ticketVars, chatVars>>

\* <Navigate> returned by the guard of the current route
GuardRedirect ==
  /\ Guarded(route)
  /\ GuardOutcome.kind = "redirect"
  /\ GoTo(GuardOutcome.to)

\* the home page's effect: authenticated users are sent to the chat
IndexRedirect ==
  /\ route = ROUTES_HOME
  /\ Truthy(UseAuth.isAuthenticated)
  /\ GoTo(ROUTES_CHAT)

\* the location shows its page and no redirect is due
Settled ==
  /\ ~(Guarded(route) /\ GuardOutcome.kind = "redirect")
  /\ ~(route = ROUTES_HOME /\ Truthy(UseAuth.isAuthenticated))

\* Any location opened with any session the store can hold, the session not
\* changing: only the automatic redirects run
RedirectInit ==
  /\ variant \in Variants
  /\ session \in {NullSession}
        \cup {AuthSession(u, t) :
                u \in IF variant = "supabase" THEN GuardUsers \ {NullUser} ELSE RestUsers,
                t \in Tokens}
  /\ localStorage = [persist |-> Partialize(session),
                     authToken |-> IF variant = "rest" THEN session.token ELSE NullToken]
  /\ calls = EmptyBag
  /\ ret = NoReturn
  /\ mounted = 0
  /\ props = DefaultProps
  /\ outcome = NotRendered
  /\ subscribed = 0
  /\ provider = Unsettled
  /\ facadeLog = NotObserved
  /\ notices = 0
  /\ TicketsIdle
  /\ ChatIdle
  /\ route \in Locations
  /\ hops = 0

RedirectNext ==
  \/ GuardRedirect
  \/ IndexRedirect

RedirectSpec == RedirectInit /\ [][RedirectNext]_vars

\* A protected location opened in a browser that holds no persisted record
\* while the provider holds a valid session and answers every session check
VisitInit ==
  /\ variant \in Variants
  /\ localStorage \in {[persist |-> NoItem, authToken |-> t] :
                         t \in IF variant = "rest" THEN Tokens ELSE {NullToken}}
  /\ session = NullSession
  /\ calls = EmptyBag
  /\ ret = NoReturn
  /\ mounted = 0
  /\ props = DefaultProps
  /\ outcome = NotRendered
  /\ subscribed = 0
  /\ provider \in {r \in SessionReplies :
                      /\ ~r.thrown /\ r.user # NullUser
                      /\ variant = "rest" => r.success}
  /\ facadeLog = NotObserved
  /\ notices = 0
  /\ TicketsIdle
  /\ ChatIdle
  /\ route \in GuardLocations
  /\ hops = 0

VisitNext ==
  \/ Mount
  \/ ProviderAnswers
  \/ GuardRedirect

\* React renders and runs the effects of what it shows, and the provider
\* answers every call
VisitSpec ==
  /\ VisitInit /\ [][VisitNext]_vars
  /\ WF_vars(Mount)
  /\ WF_vars(ProviderAnswers)
  /\ WF_vars(GuardRedirect)

\* ------------------------------------ ticket store (useTicketStore)
TicketIds == {"t1", "t2"}             \* tickets the server holds
NewTicketIds == {"t3"}                \* ids the server gives to new tickets
Ticket(id, status) == [id |-> id, status |-> status]
NoTicket == [id |-> "null", status |-> "null"]     \* data: null

\* the lists GET /tickets may answer with
ServerLists ==
  {<< >>,
   <<Ticket("t1", "open"), Ticket("t2", "open")>>,
   <<Ticket("t2", "closed")>>}

TicketMessages == {"Denied", Undef}

\* an IApiResponse body; hasData: data is not null
ApiBody(success, hasData, data, message) ==
  [thrown |-> FALSE, success |-> success, hasData |-> hasData, data |-> data,
   message |-> message, responseMessage |-> Undef]
\* an AxiosError: responseMessage is error.response?.data?.message
ApiError(responseMessage, message, nodata) ==
  [thrown |-> TRUE, success |-> FALSE, hasData |-> FALSE, data |-> nodata,
   message |-> message, responseMessage |-> responseMessage]

ApiFailures(nodata) ==
  {ApiBody(FALSE, FALSE, nodata, m) : m \in TicketMessages}
  \cup {ApiError("Denied", "Request failed", nodata),
        ApiError(Undef, "Network Error", nodata)}

FetchReplies ==
  {ApiBody(TRUE, TRUE, l, Undef) : l \in ServerLists}
  \cup {ApiBody(TRUE, FALSE, << >>, Undef)} \cup ApiFailures(<< >>)
CreateReplies ==
  {ApiBody(TRUE, TRUE, Ticket(id, "open"), Undef) : id \in NewTicketIds}
  \cup {ApiBody(TRUE, FALSE, NoTicket, Undef)} \cup ApiFailures(NoTicket)
UpdateReplies(c) ==
  {ApiBody(TRUE, TRUE, Ticket(c.id, c.status), Undef),
   ApiBody(TRUE, FALSE, NoTicket, Undef)} \cup ApiFailures(NoTicket)
DeleteReplies ==
  {ApiBody(TRUE, FALSE, NoTicket, Undef)} \cup ApiFailures(NoTicket)

\* op: the store operation; id, status: its arguments; overlapped: another
\* operation has changed the list since this one was called (observation only)
TicketRequest(op, id, status) ==
  [op |-> op, id |-> id, status |-> status, overlapped |-> FALSE]

TicketReturn(c, result, message, reply) ==
  [op |-> c.op, outcome |-> result, message |-> message,
   id |-> c.id, reply |-> reply, overlapped |-> c.overlapped]

RECURSIVE Overlapped(_)
\* every request still in flight has now seen the list change
Overlapped(B) ==
  IF B = EmptyBag THEN EmptyBag
  ELSE LET c == CHOOSE x \in BagToSet(B) : TRUE
       IN Copies([c EXCEPT !.overlapped = TRUE], B[c])
          (+) Overlapped(B (-) Copies(c, B[c]))

\* the writes of one set() call: the store's state after it
Writes(newTickets, newLoading, newError) ==
  [tickets |-> newTickets, loading |-> newLoading, error |-> newError]

\* the API has answered request c: the handler's writes w and its return
TicketApply(c, r, w, result, message) ==
  /\ tickets' = w.tickets
  /\ loading' = w.loading
  /\ error' = w.error
  /\ requests' = IF w.tickets # tickets
                 THEN Overlapped(requests (-) SetToBag({c}))
                 ELSE requests (-) SetToBag({c})
  /\ tret' = TicketReturn(c, result, message, r)
  /\ UNCHANGED <<authVars, notices, navVars, chatVars>>

\* error.response?.data?.message || error.message || fallback, for what the
\* try block threw: an AxiosError, or new Error(response.message || fallback)
FailureMessage(r, fallback) ==
  IF r.thrown THEN OrElse(r.responseMessage, OrElse(r.message, fallback))
  ELSE OrElse(r.message, fallback)

Fallback(op) ==
  CASE op = "fetchTickets" -> "Failed to fetch tickets"
    [] op = "createTicket" -> "Failed to create ticket"
    [] op = "updateTicket" -> "Failed to update ticket"
    [] op = "deleteTicket" -> "Failed to delete ticket"

\* the else branch or the catch block is taken
TakesCatch(op, r) ==
  r.thrown \/ ~r.success \/ (op # "deleteTicket" /\ ~r.hasData)

\* a ticket store operation up to its await
TicketBegin(op, id, status) ==
  /\ BagCardinality(requests) < MaxRequests
  /\ requests' = requests (+) SetToBag({TicketRequest(op, id, status)})
  /\ UNCHANGED <<authVars, notices, navVars, chatVars, tickets, tret>>

fetchTickets ==
  /\ TicketBegin("fetchTickets", Undef, Undef)
  /\ loading' = TRUE
  /\ error' = NullError

createTicket ==
  /\ TicketBegin("createTicket", Undef, Undef)
  /\ UNCHANGED <<loading, error>>

updateTicket(id, status) ==
  /\ TicketBegin("updateTicket", id, status)
  /\ UNCHANGED <<loading, error>>

deleteTicket(id) ==
  /\ TicketBegin("deleteTicket", id, Undef)
  /\ UNCHANGED <<loading, error>>

fetchTicketsComplete(c, r) ==
  /\ c \in BagToSet(requests)
  /\ c.op = "fetchTickets" /\ r \in FetchReplies
  /\ IF TakesCatch(c.op, r)
     THEN TicketApply(c, r, Writes(tickets, FALSE, FailureMessage(r, Fallback(c.op))),
                      "resolved", Undef)
     ELSE TicketApply(c, r, Writes(r.data, FALSE, error), "resolved", Undef)

\* variant of FailureWrites that also ends the loading state, as the catch
\* block of fetchTickets does
FailureWrites_StopsLoading(message) == Writes(tickets, FALSE, message)

\* the catch block of a mutation: set({ error: errorMessage })
FailureWrites(message) == Writes(tickets, loading, message)

\* the catch block of a mutation, up to its throw
MutationFails(c, r) ==
  LET message == FailureMessage(r, Fallback(c.op))
  IN TicketApply(c, r, FailureWrites(message), "rejected", message)

\* variant of Prepended that puts the new ticket at the end of the list
Prepended_AtEnd(list, newTicket) == list \o <<newTicket>>

\* [newTicket, ...state.tickets]
Prepended(list, newTicket) == <<newTicket>> \o list

RECURSIVE Replaced(_, _, _)
\* list.map(ticket => ticket.id === id ? updatedTicket : ticket)
Replaced(list, id, updatedTicket) ==
  IF list = << >> THEN << >>
  ELSE <<IF Head(list).id = id THEN updatedTicket ELSE Head(list)>>
       \o Replaced(Tail(list), id, updatedTicket)

RECURSIVE Without(_, _)
\* list.filter(ticket => ticket.id !== id)
Without(list, id) ==
  IF list = << >> THEN << >>
  ELSE (IF Head(list).id # id THEN <<Head(list)>> ELSE << >>)
       \o Without(Tail(list), id)

createTicketComplete(c, r) ==
  /\ c \in BagToSet(requests)
  /\ c.op = "createTicket" /\ r \in CreateReplies
  /\ \A i \in DOMAIN tickets : tickets[i].id # r.data.id
  /\ IF TakesCatch(c.op, r)
     THEN MutationFails(c, r)
     ELSE TicketApply(c, r, Writes(Prepended(tickets, r.data), loading, error),
                      "resolved", Undef)

updateTicketComplete(c, r) ==
  /\ c \in BagToSet(requests)
  /\ c.op = "updateTicket" /\ r \in UpdateReplies(c)
  /\ IF TakesCatch(c.op, r)
     THEN MutationFails(c, r)
     ELSE TicketApply(c, r, Writes(Replaced(tickets, c.id, r.data), loading, error),
                      "resolved", Undef)

deleteTicketComplete(c, r) ==
  /\ c \in BagToSet(requests)
  /\ c.op = "deleteTicket" /\ r \in DeleteReplies
  /\ IF TakesCatch(c.op, r)
     THEN MutationFails(c, r)
     ELSE TicketApply(c, r, Writes(Without(tickets, c.id), loading, error),
                      "resolved", Undef)

\* The ticket store alone: pages call its operations and the API answers
TicketInit ==
  /\ variant = "rest"
  /\ localStorage = [persist |-> NoItem, authToken |-> NullToken]
  /\ session = NullSession
  /\ calls = EmptyBag
  /\ ret = NoReturn
  /\ mounted = 0
  /\ props = DefaultProps
  /\ outcome = NotRendered
  /\ subscribed = 0
  /\ provider = Unsettled
  /\ facadeLog = NotObserved
  /\ PagesIdle

TicketNext ==
  \/ fetchTickets
  \/ createTicket
  \/ \E id \in TicketIds : updateTicket(id, "closed")
  \/ \E id \in TicketIds : deleteTicket(id)
  \/ \E c \in BagToSet(requests), r \in FetchReplies : fetchTicketsComplete(c, r)
  \/ \E c \in BagToSet(requests), r \in CreateReplies : createTicketComplete(c, r)
  \/ \E c \in BagToSet(requests) : \E r \in UpdateReplies(c) : updateTicketComplete(c, r)
  \/ \E c \in BagToSet(requests), r \in DeleteReplies : deleteTicketComplete(c, r)

TicketSpec == TicketInit /\ [][TicketNext]_vars

\* ------------------------------------------- chat page (ChatInterface)
ChatTexts == {"VPN is down", "Reset my password"}     \* what the user types
Apology == "I apologize, but I encountered an error while processing your request. Please try again or contact IT support directly."

ChatMessage(type, content) == [type |-> type, content |-> content]

\* supabase.functions.invoke('ai-chat'): { data, error } or a throw;
\* response is data.response
InvokeAnswers ==
  {[kind |-> "data", response |-> "Restart the VPN client"],
   [kind |-> "data", response |-> Undef],
   [kind |-> "nodata", response |-> Undef],
   [kind |-> "error", response |-> Undef],
   [kind |-> "throw", response |-> Undef]}

\* variant of CanSubmit for a form that stays enabled while a reply is awaited
CanSubmit_WhileLoading(text) == text # ""

\* the form hands a submission to onSubmit: the button is enabled
\* (disabled={isLoading || !messageValue?.trim()})
CanSubmit(text) == ~isLoading /\ text # ""

\* onSubmit up to its await
onSubmit(text) ==
  /\ CanSubmit(text)
  /\ Len(messages) + 2 <= MaxMessages
  /\ asking < MaxAsking
  /\ isLoading' = TRUE
  /\ messages' = Append(messages, ChatMessage("user", text))
  /\ asking' = asking + 1
  /\ UNCHANGED <<authVars, notices, navVars, ticketVars, answer>>

\* onSubmit after its await: the reply or the apology, then finally
onSubmitComplete(r) ==
  /\ asking > 0
  /\ r \in InvokeAnswers
  /\ messages' = Append(messages,
                        ChatMessage("ai", IF r.kind = "data" THEN r.response
                                          ELSE Apology))
  /\ isLoading' = FALSE
  /\ asking' = asking - 1
  /\ answer' = r
  /\ UNCHANGED <<authVars, notices, navVars, ticketVars>>

\* The chat page alone: the user submits messages and the function answers
ChatInit ==
  /\ variant = "supabase"
  /\ localStorage = [persist |-> NoItem, authToken |-> NullToken]
  /\ session = NullSession
  /\ calls = EmptyBag
  /\ ret = NoReturn
  /\ mounted = 0
  /\ props = DefaultProps
  /\ outcome = NotRendered
  /\ subscribed = 0
  /\ provider = Unsettled
  /\ facadeLog = NotObserved
  /\ PagesIdle

ChatNext ==
  \/ \E text \in ChatTexts : onSubmit(text)
  \/ \E r \in InvokeAnswers : onSubmitComplete(r)

\* the function invocation settles: it is answered, fails or times out
ChatSpec ==
  /\ ChatInit /\ [][ChatNext]_vars
  /\ WF_vars(\E r \in InvokeAnswers : onSubmitComplete(r))

\* ----------------------------------------------------------- type check
TypeOK ==
  /\ variant \in Variants
  /\ session.isAuthenticated \in BOOLEAN
  /\ BagCardinality(calls) <= MaxCalls
  /\ mounted \in 0..MaxViews
  /\ subscribed \in 0..MaxViews
  /\ ret.n \in {0, 1}


\* =============================================================== claims
\* What the provider's answer was, read off the record of the last return
SignInAccepted ==
  IF variant = "supabase"
  THEN ~ret.reply.hasError /\ ret.reply.user # NullUser /\ ret.reply.token # NullToken
  ELSE ~ret.reply.thrown /\ ret.reply.success /\ ret.reply.user # NullUser

SessionReported ==
  /\ ret.reply # NoReply
  /\ ~ret.reply.thrown
  /\ ret.reply.user # NullUser
  /\ variant = "rest" => ret.reply.success

\* the canonical record for a Supabase payload, field by field
IsCanonicalFor(user, payload) ==
  /\ user # NullUser
  /\ user.id = payload.id
  /\ user.email = payload.email
  /\ user.name = (IF payload.metaName \in {Undef, ""} THEN payload.email
                  ELSE payload.metaName)
  /\ user.role = (IF payload.metaRole \in {Undef, ""} THEN "user"
                  ELSE payload.metaRole)
  /\ user.department = payload.metaDepartment
  /\ user.createdAt = payload.created_at
  /\ user.updatedAt = payload.updated_at

\* C1: in every reachable state, with any operations in flight,
\* isAuthenticated is true exactly when user and token are both present.
C1_AuthenticatedIffUserAndToken ==
  session.isAuthenticated <=> (session.user # NullUser /\ session.token # NullToken)

C1_Witness ==
  /\ session.isAuthenticated
  /\ session.user # NullUser /\ session.token # NullToken
  /\ ret.op = "checkAuth"
  /\ calls # EmptyBag

\* C2: a step that starts a login or register call, and a step in which such
\* a call is rejected to its caller, leave the session triple as it was.
C2_RejectedCallLeavesSession ==
  [][ (\/ /\ ret'.n # ret.n
          /\ ret'.op \in {"login", "register"}
          /\ ret'.outcome = "rejected"
       \/ \E c \in BagToSet(calls') :
            /\ c.op \in {"login", "register"}
            /\ calls' = calls (+) SetToBag({c}))
      => session' = session ]_vars

C2_Witness ==
  /\ ret.op \in {"login", "register"}
  /\ ret.outcome = "rejected"
  /\ session.isAuthenticated

\* C3: once login has resolved on an answer that carries user U and
\* credential T, the session is {canonical record of U, T, true}.
C3_LoginSuccessSetsSession ==
  (ret.op = "login" /\ ret.outcome = "resolved" /\ SignInAccepted) =>
    /\ session.isAuthenticated
    /\ session.token = ret.reply.token
    /\ IF variant = "supabase"
       THEN IsCanonicalFor(session.user, ret.reply.user)
       ELSE session.user = ret.reply.user

C3_Witness ==
  /\ variant = "supabase"
  /\ ret.op = "login" /\ ret.outcome = "resolved"
  /\ ret.reply.user # NullUser /\ ret.reply.token = "T2"
  /\ ret.reply.user.metaRole = Undef
  /\ session.isAuthenticated /\ session.token = "T2"
  /\ session.user.role = "user" /\ session.user.name = "a@x.com"

\* C4: once logout has returned the session is the null triple and logout
\* has resolved, whatever the provider did with the sign-out request.
C4_LogoutAlwaysClears ==
  ret.op = "logout" => (ret.outcome = "resolved" /\ session = NullSession)

C4_Witness ==
  /\ ret.op = "logout"
  /\ ret.reply = [kind |-> "throw"]
  /\ session = NullSession

\* C5: checkAuth never rejects, and once it has returned the session is the
\* authenticated triple of the reported session if the provider reported
\* one, and the null triple in every other case.
C5_CheckAuthIsDefinite ==
  ret.op = "checkAuth" =>
    /\ ret.outcome = "resolved"
    /\ IF SessionReported
       THEN /\ session.isAuthenticated
            /\ session.token # NullToken
            /\ IF variant = "supabase"
               THEN /\ IsCanonicalFor(session.user, ret.reply.user)
                    /\ session.token = ret.reply.token
               ELSE session.user = ret.reply.user
       ELSE session = NullSession

C5_Witness ==
  /\ ret.op = "checkAuth"
  /\ ret.reply # NoReply
  /\ ret.reply.thrown
  /\ session = NullSession

\* C6: a checkAuth whose answer arrives after a logout has completed in the
\* meantime, and reports a session, leaves the session authenticated with
\* the reported user.
C6_CheckAuthAfterLogoutWins ==
  (ret.op = "checkAuth" /\ ret.afterLogout /\ SessionReported) =>
    /\ session.isAuthenticated
    /\ session.user # NullUser
    /\ session.user.id = ret.reply.user.id
    /\ session.token # NullToken

C6_Witness ==
  /\ ret.op = "checkAuth" /\ ret.afterLogout
  /\ SessionReported
  /\ session.isAuthenticated

\* a view is mounted and a checkAuth started by a mount effect is in flight
MountCheckPending ==
  /\ mounted > 0
  /\ \E c \in InFlight : c.op = "checkAuth" /\ c.mount

\* C7: while the checkAuth started by the mount effect has not returned, the
\* guard shows the loading placeholder on every protected route.
C7_LoadingWhileChecking ==
  MountCheckPending =>
    \A requireRole \in {Undef, "user", "agent", "admin"}, location \in GuardLocations :
      ProtectedRoute(UseAuth.user, UseAuth.isAuthenticated, requireRole, location)
        = Loading

\* the guard has been rendered with props
Rendered == outcome # NotRendered

\* C8: with isAuthenticated false the guard redirects to the login route and
\* hands over the requested location, whatever role the route requires.
C8_UnauthenticatedRedirectsToLogin ==
  (Rendered /\ props.isAuthenticated = Bool(FALSE)) =>
    /\ outcome.kind = "redirect"
    /\ outcome.to = "/auth/login"
    /\ outcome.from = props.location

C8_Witness ==
  /\ Rendered
  /\ props.isAuthenticated = Bool(FALSE)
  /\ props.requireRole = "agent"
  /\ props.location = "/tickets"
  /\ outcome = [kind |-> "redirect", to |-> "/auth/login", from |-> "/tickets"]

\* C9: the guard renders the protected content exactly when isAuthenticated
\* is true, a user is present, and no role is required or the user has it.
C9_ContentIffAuthorized ==
  Rendered =>
    (outcome.kind = "content" <=>
       /\ props.isAuthenticated = Bool(TRUE)
       /\ props.user # NullUser
       /\ (props.requireRole = Undef \/ props.user.role = props.requireRole))

C9_Witness ==
  /\ Rendered
  /\ outcome.kind = "content"
  /\ props.requireRole = "agent"
  /\ props.user # NullUser
  /\ props.user.role = "agent"

\* C10: an authenticated user without the required role is redirected, to
\* the login route when "admin" is required and to the home route otherwise.
C10_ForbiddenRedirect ==
  (/\ Rendered
   /\ props.isAuthenticated = Bool(TRUE)
   /\ props.user # NullUser
   /\ props.requireRole \in Roles
   /\ props.user.role # props.requireRole) =>
    /\ outcome.kind = "redirect"
    /\ outcome.to = (IF props.requireRole = "admin" THEN "/auth/login" ELSE "/")

C10_Witness ==
  /\ Rendered
  /\ props.isAuthenticated = Bool(TRUE)
  /\ props.user # NullUser
  /\ props.user.role = "user"
  /\ props.requireRole = "admin"
  /\ outcome.kind = "redirect" /\ outcome.to = "/auth/login"

\* C11: with the provider's state unchanged and nothing but checkAuth()
\* called, a checkAuth() that returns after an earlier checkAuth() has
\* returned leaves the session as that earlier call left it.
C11_CheckAuthIdempotent ==
  [][ (ret.op = "checkAuth" /\ ret'.op = "checkAuth" /\ ret'.n # ret.n)
      => session' = session ]_vars

C11_Witness ==
  /\ variant = "rest"
  /\ ret.op = "checkAuth" /\ ret.n = 0
  /\ ret.reply # NoReply
  /\ session.isAuthenticated
  /\ calls = EmptyBag

\* the provider refused the sign-in of the login that returned last
SignInFailed ==
  IF variant = "supabase" THEN ret.reply.hasError
  ELSE ret.reply.thrown \/ ~ret.reply.success

\* the message that came with the provider's answer: the one of the response
\* body, else the one of the transport error; Undef when there was none
ProviderMessage ==
  IF variant = "supabase" THEN ret.reply.message
  ELSE IF ret.reply.message # Undef THEN ret.reply.message
  ELSE ret.reply.errMessage

\* C12: a login whose sign-in the provider refused with message M rejects
\* with message M, and a login rejects with the text "Login failed" only
\* when the provider's answer carried no message.
C12_LoginRejectsWithProviderMessage ==
  ret.op = "login" =>
    /\ SignInFailed =>
         /\ ret.outcome = "rejected"
         /\ ProviderMessage # Undef => ret.message = ProviderMessage
    /\ (ret.outcome = "rejected" /\ ret.message = "Login failed") =>
         ProviderMessage = Undef

C12_Witness ==
  /\ ret.op = "login"
  /\ ret.outcome = "rejected"
  /\ ret.reply.message = "Invalid credentials"
  /\ ret.message = "Invalid credentials"

\* the number of calls of operation op in the bag B
InFlightOf(B, op) ==
  BagCardinality([c \in {x \in BagToSet(B) : x.op = op} |-> B[c]])

\* this step invokes the store operation op: one more call of it awaits the
\* provider, or (REST build) it has run to its return without awaiting
Invoked(op) ==
  \/ InFlightOf(calls', op) = InFlightOf(calls, op) + 1
  \/ /\ variant = "rest"
     /\ ret'.n # ret.n /\ ret'.op = op
     /\ InFlightOf(calls', op) = InFlightOf(calls, op)

\* this step is the mount effect of a view
MountStep == facadeLog'.n # facadeLog.n /\ facadeLog'.by = "mount"

\* in this step the provider emits an auth event
NotifyStep == facadeLog'.n # facadeLog.n /\ facadeLog'.by = "notify"

\* C13: the mount effect invokes checkAuth(), and the notification that the
\* provider delivers on subscription, right after the mount, invokes no
\* second one.
C13_OneCheckAuthPerMount ==
  [][ /\ MountStep => Invoked("checkAuth")
      /\ (NotifyStep /\ facadeLog.by = "mount"
            /\ facadeLog'.event = "INITIAL_SESSION")
          => ~Invoked("checkAuth") ]_vars

\* C14: a notification delivered to a subscribed facade invokes logout() and
\* not checkAuth() when it is "signed out"; invokes checkAuth() and not
\* logout() when it is another event with a session; and otherwise invokes
\* neither and leaves the session as it is.
C14_NotificationDispatch ==
  [][ (NotifyStep /\ subscribed > 0) =>
        IF facadeLog'.event = "SIGNED_OUT"
        THEN Invoked("logout") /\ ~Invoked("checkAuth")
        ELSE IF facadeLog'.hasSession
        THEN Invoked("checkAuth") /\ ~Invoked("logout")
        ELSE /\ ~Invoked("logout") /\ ~Invoked("checkAuth")
             /\ session' = session ]_vars

C14_Witness ==
  /\ facadeLog.by = "notify"
  /\ facadeLog.event = "SIGNED_OUT"
  /\ facadeLog.hasSession
  /\ facadeLog.views > 0
  /\ \E c \in InFlight : c.op = "logout"
  /\ session.isAuthenticated

\* C15: no more subscriptions are live than views are mounted, and once the
\* last view has unmounted a notification of the provider invokes neither
\* logout() nor checkAuth() and changes nothing in the store.
C15_NoNotificationAfterUnmount ==
  [][ /\ subscribed' <= mounted'
      /\ (NotifyStep /\ mounted = 0) =>
           /\ ~Invoked("logout") /\ ~Invoked("checkAuth")
           /\ session' = session /\ calls' = calls /\ ret' = ret
           /\ localStorage' = localStorage ]_vars

C15_Witness ==
  /\ variant = "supabase"
  /\ facadeLog.by = "notify"
  /\ facadeLog.event = "SIGNED_OUT"
  /\ facadeLog.views = 0
  /\ ret.op = "checkAuth"
  /\ session.isAuthenticated
  /\ calls = EmptyBag

\* C16: when no view is mounted any more, the answer to a checkAuth() that a
\* mount effect had started leaves the session as it was.
C16_LateCheckAuthDiscarded ==
  [][ (/\ mounted = 0
       /\ calls # EmptyBag
       /\ \A c \in BagToSet(calls) : c.op = "checkAuth" /\ c.mount
       /\ ret'.n # ret.n /\ ret'.op = "checkAuth"
       /\ InFlightOf(calls', "checkAuth") < InFlightOf(calls, "checkAuth"))
      => session' = session ]_vars

\* C17: when register resolves on an accepting answer, the session user has
\* role "user" and the name and department that were submitted with the call.
C17_RegisterUsesSubmittedData ==
  [][ \A c \in BagToSet(calls) :
        (/\ c.op = "register"
         /\ calls' = Finished(c)
         /\ ret'.n # ret.n /\ ret'.op = "register" /\ ret'.outcome = "resolved"
         /\ SignInAccepted')
        => /\ session'.user # NullUser
           /\ session'.user.role = "user"
           /\ session'.user.name = c.name
           /\ session'.user.department = c.department ]_vars

\* the sign-out requests awaiting the provider
SignOutRequests(B) == InFlightOf(B, "logout") + InFlightOf(B, "logoutApi")

\* C18: the step in which logout() of a signed-in user sends its sign-out
\* request to the provider leaves the session and the stored credential as
\* they were; they are cleared later.
C18_SignOutRequestBeforeClearing ==
  [][ (session.isAuthenticated /\ SignOutRequests(calls') > SignOutRequests(calls))
      => /\ session' = session
         /\ localStorage'.authToken = localStorage.authToken ]_vars

\* C19: once a store operation has returned, the stored record and the
\* session agree: after an accepted login, register or checkAuth the stored
\* record is the authenticated triple of the session; after logout or a
\* checkAuth that found no session the stored record holds no user, no token
\* and a false flag, and no bearer token is stored.
C19_PersistedAgreesWithSession ==
  ret.op # "none" =>
    /\ Rehydrate(localStorage.persist) = session
    /\ ((ret.op \in {"login", "register"} /\ ret.outcome = "resolved" /\ SignInAccepted)
        \/ (ret.op = "checkAuth" /\ SessionReported))
       => /\ session.isAuthenticated
          /\ localStorage.persist = session
    /\ (ret.op = "logout" \/ (ret.op = "checkAuth" /\ ~SessionReported))
       => /\ localStorage.persist # NoItem
          /\ localStorage.persist.user = NullUser
          /\ localStorage.persist.token = NullToken
          /\ ~localStorage.persist.isAuthenticated
          /\ localStorage.authToken = NullToken

C19_Witness ==
  /\ ret.op = "checkAuth"
  /\ ret.reply # NoReply
  /\ ~SessionReported
  /\ localStorage.persist = NullSession
  /\ session = NullSession
  /\ \E c \in InFlight : c.op = "login"

\* the answer to the operation that returned last was a 401, which the
\* response interceptor of the API client handles
Unauthorized ==
  /\ variant = "rest"
  /\ ret.reply # NoReply
  /\ ret.reply.thrown /\ ret.reply.status = 401

\* C20: a store operation leaves every storage key other than the one of the
\* persisted session as it was.
C20_OnlyThePersistKey ==
  [][ (ret'.n # ret.n /\ ~Unauthorized')
      => localStorage'.authToken = localStorage.authToken ]_vars

\* the answer to the operation that returned last carried a user payload
\* that the store has taken into the session
PayloadTaken ==
  /\ ret.op \in {"login", "checkAuth"}
  /\ ret.outcome = "resolved"
  /\ ret.reply # NoReply
  /\ IF ret.op = "login" THEN SignInAccepted ELSE SessionReported

\* C21: after login or checkAuth has taken a provider payload, the session
\* user's role is the payload's role, or "user" if it has none, and the name
\* is the payload's display name, or the email address if it has none.
C21_NormalizedRoleAndName ==
  PayloadTaken =>
    /\ session.user # NullUser
    /\ IF variant = "supabase"
       THEN LET p == ret.reply.user IN
            /\ session.user.role =
                 (IF p.metaRole \in {Undef, ""} THEN "user" ELSE p.metaRole)
            /\ session.user.name =
                 (IF p.metaName \in {Undef, ""} THEN p.email ELSE p.metaName)
       ELSE /\ session.user.role = ret.reply.user.role
            /\ session.user.name = ret.reply.user.name

C21_Witness ==
  /\ variant = "supabase"
  /\ ret.op = "checkAuth" /\ PayloadTaken
  /\ ret.reply.user.metaRole = "admin" /\ ret.reply.user.metaName = "Bob"
  /\ session.user.role = "admin" /\ session.user.name = "Bob"
  /\ localStorage.persist.user.role = "admin"

\* C22: whenever login or register resolves, the session is authenticated at
\* that moment; an answer without error but without session or user does
\* not let the call resolve on an unauthenticated session.
C22_ResolvedMeansAuthenticated ==
  [][ (ret'.n # ret.n /\ ret'.op \in {"login", "register"}
         /\ ret'.outcome = "resolved")
      => session'.isAuthenticated ]_vars

\* the bearer credential stored for the request interceptor agrees with the
\* store's token
BearerAgrees ==
  session.token # NullToken => localStorage.authToken = session.token

\* C25: in the REST build, whenever the store's token is present the bearer
\* credential under LOCAL_STORAGE_KEYS.AUTH_TOKEN is present and equal to
\* it; no operation and no 401 answer takes the two apart.
C25_BearerFollowsToken ==
  [][ (variant = "rest" /\ BearerAgrees) => BearerAgrees' ]_vars

\* logout() has been called
LogoutInvoked == ret.op = "logout" \/ InFlightOf(calls, "logout") > 0

\* no request awaits the provider and no notification awaits its callback
Quiescent == calls = EmptyBag /\ notices = 0

\* C23: with a provider that emits SIGNED_OUT for every sign-out request and
\* a subscribed facade, one logout() by the user is followed by finitely
\* many sign-out requests: from some moment on nothing is in flight and the
\* session is unauthenticated.
C23_LogoutComesToRest ==
  LogoutInvoked ~> [](Quiescent /\ ~session.isAuthenticated)

\* the guard has sent the visitor to the login page, which shows no redirect
SettledOnLogin == hops > 0 /\ route = ROUTES_LOGIN

\* C24: when a protected location is opened without a persisted record while
\* the provider holds a valid session, the guard does not settle on the login
\* page before a session check has returned (and the visitor gets the
\* protected content without signing in again).
C24_NoLoginBeforeCheck ==
  SettledOnLogin => ret.op = "checkAuth"

\* C26: with the session held fixed, every chain of automatic redirects by
\* the guard and the home page ends: no chain is as long as the number of
\* locations, so none visits a location twice.
C26_RedirectsEnd ==
  hops < Cardinality(Locations)

C26_Witness ==
  /\ hops = 1 /\ route = ROUTES_CHAT
  /\ session.isAuthenticated /\ session.user.role = "agent"
  /\ Settled

\* this step is the return of a ticket store operation; tret' describes it
TicketReturned == BagCardinality(requests') = BagCardinality(requests) - 1

Mutations == {"createTicket", "updateTicket", "deleteTicket"}

\* C27: fetchTickets never rejects and ends with loading false; after an
\* answer that carries the list, tickets is that list and error is null;
\* after any other answer error holds a message and tickets is as it was.
C27_FetchTicketsOutcome ==
  [][ (TicketReturned /\ tret'.op = "fetchTickets") =>
        /\ tret'.outcome = "resolved"
        /\ loading' = FALSE
        /\ IF ~tret'.reply.thrown /\ tret'.reply.success /\ tret'.reply.hasData
           THEN tickets' = tret'.reply.data /\ error' = NullError
           ELSE error' # NullError /\ tickets' = tickets ]_vars

C29_MutationsOnCurrentList ==
  [][ (TicketReturned /\ tret'.op \in Mutations /\ tret'.outcome = "resolved") =>
        CASE tret'.op = "createTicket" ->
               /\ Len(tickets') = Len(tickets) + 1
               /\ tickets'[1] = tret'.reply.data
               /\ \A i \in DOMAIN tickets : tickets'[i + 1] = tickets[i]
          [] tret'.op = "updateTicket" ->
               /\ Len(tickets') = Len(tickets)
               /\ \A i \in DOMAIN tickets :
                    tickets'[i] = IF tickets[i].id = tret'.id THEN tret'.reply.data
                                  ELSE tickets[i]
          [] tret'.op = "deleteTicket" ->
               LET kept == {i \in DOMAIN tickets : tickets[i].id # tret'.id}
               IN /\ Len(tickets') = Cardinality(kept)
                  /\ \A i \in kept :
                       tickets'[Cardinality({j \in kept : j <= i})] = tickets[i] ]_vars

C29_Witness ==
  /\ tret.op = "updateTicket" /\ tret.outcome = "resolved" /\ tret.id = "t1"
  /\ tret.overlapped
  /\ tickets = <<Ticket("t3", "open"), Ticket("t1", "closed"), Ticket("t2", "open")>>

\* the conversation is a run of exchanges: a user message, then one AI-side
\* message, the last of them still awaited exactly while isLoading is true
ChatProtocol ==
  /\ asking = (IF isLoading THEN 1 ELSE 0)
  /\ \A i \in DOMAIN messages :
       messages[i].type = (IF i % 2 = 1 THEN "user" ELSE "ai")
  /\ Len(messages) % 2 = (IF isLoading THEN 1 ELSE 0)
  /\ (~isLoading /\ messages # << >>) =>
       messages[Len(messages)].content =
         (IF answer.kind = "data" THEN answer.response ELSE Apology)

\* C30: every submission appends one user message at once and is followed
\* by exactly one AI-side message, the reply or the apology; isLoading is
\* true from the submission to that message and false after it, and no
\* submission is taken while it is true.
C30_ChatProtocol ==
  /\ []ChatProtocol
  /\ [][(isLoading /\ messages' # messages) => ~isLoading']_vars
  /\ isLoading ~> ~isLoading

C30_Witness ==
  /\ Len(messages) = 4 /\ ~isLoading
  /\ messages[1] = ChatMessage("user", "VPN is down")
  /\ messages[2] = ChatMessage("ai", Apology)
  /\ messages[3].type = "user"
  /\ messages[4] = ChatMessage("ai", "Restart the VPN client")

====
